---------------------------- MODULE Spec2Model ----------------------------
(***************************************************************************)
(* markflow: the line predicates (markflow/detectors/_lines.py), the       *)
(* classification loop and blank-run buffering of _reformat_markdown_text *)
(* and the two-pass idempotency check of reformat_markdown_text            *)
(* (markflow/reformat_markdown.py).                                        *)
(*                                                                         *)
(* A line is a sequence of one-character strings, a text is a sequence of  *)
(* characters in which "\n" ends a line.  The splitters, the renderers and *)
(* get_indent live outside the files modelled here; they are modelled from *)
(* the specification's description of them.                                *)
(***************************************************************************)
EXTENDS Naturals, Sequences, FiniteSets, TLC

\* ------------------------------------------------------------------ bounds
MaxLines == 3
MaxLineLen == 5
MaxTextLines == 2

\* ------------------------------------------------------- program constants
INDENT_THRESHOLD == 4
THEMATIC_MIN == 3
FENCE_MIN == 3
NOTSET == 0
DEBUG == 10
ERROR == 40

NL == "\n"
SP == " "
BACKTICK == "bt"

FENCED_CODE_BLOCK_FENCE_CHARACTERS == <<BACKTICK, "~">>
THEMATIC_BREAK_CHARACTERS == <<"*", "_", "-">>
Digits == {"0", "1", "2", "3", "4", "5", "6", "7", "8", "9"}

\* ------------------------------------------------------------ str helpers
Max(a, b) == IF a >= b THEN a ELSE b

Repeat(c, n) == [i \in 1..n |-> c]

RECURSIVE LeadingSpaces(_)
LeadingSpaces(s) ==
    IF s = <<>> \/ Head(s) # SP THEN 0 ELSE 1 + LeadingSpaces(Tail(s))

RECURSIVE TrailingSpaces(_)
TrailingSpaces(s) ==
    IF s = <<>> \/ s[Len(s)] # SP
    THEN 0
    ELSE 1 + TrailingSpaces(SubSeq(s, 1, Len(s) - 1))

\* str.lstrip()
LStrip(s) == SubSeq(s, LeadingSpaces(s) + 1, Len(s))

\* str.rstrip()
RStrip(s) == SubSeq(s, 1, Len(s) - TrailingSpaces(s))

\* str.strip()
Strip(s) == RStrip(LStrip(s))

\* "".join(line.split()): the line with all of its whitespace removed
Spaceless(s) == SelectSeq(s, LAMBDA c : c # SP)

\* str.startswith(prefix)
StartsWith(s, p) == Len(s) >= Len(p) /\ SubSeq(s, 1, Len(p)) = p

\* all(char == c for char in s)
AllChars(s, c) == \A i \in 1..Len(s) : s[i] = c

\* markflow._utils.get_indent: the leading-whitespace column count
get_indent(line) == LeadingSpaces(line)

RECURSIVE LeadingDigits(_)
LeadingDigits(s) ==
    IF s = <<>> \/ Head(s) \notin Digits THEN 0 ELSE 1 + LeadingDigits(Tail(s))

\* LIST_START_REGEX.search(line): ^\s*(\*|-|\+|[0-9]+\.) followed by a space
ListStartRegexMatches(line) ==
    LET t == LStrip(line)
        d == LeadingDigits(t)
    IN  \/ /\ Len(t) >= 2
           /\ t[1] \in {"*", "-", "+"}
           /\ t[2] = SP
        \/ /\ d >= 1
           /\ Len(t) >= d + 2
           /\ t[d + 1] = "."
           /\ t[d + 2] = SP

\* -------------------------------------------------------- line predicates
is_indented_code_block_start_line(line) ==
    Strip(line) # <<>> /\ get_indent(line) >= INDENT_THRESHOLD

is_atx_heading_line(line) ==
    ~is_indented_code_block_start_line(line) /\ StartsWith(LStrip(line), <<"#">>)

is_blank_line_line(line) == Strip(line) = <<>>

is_block_quote_line(line) ==
    ~is_indented_code_block_start_line(line) /\ StartsWith(LStrip(line), <<">">>)

is_fenced_code_block_start_line(line) ==
    \E i \in 1..Len(FENCED_CODE_BLOCK_FENCE_CHARACTERS) :
        StartsWith(Strip(line),
                   Repeat(FENCED_CODE_BLOCK_FENCE_CHARACTERS[i], FENCE_MIN))

is_list_start_line(line) ==
    ~is_indented_code_block_start_line(line) /\ ListStartRegexMatches(line)

is_table_start_line(line) == StartsWith(LStrip(line), <<"|">>)

is_thematic_break_line(line) ==
    IF is_indented_code_block_start_line(line)
    THEN FALSE
    ELSE LET spaceless_line == Spaceless(line)
         IN  IF Len(spaceless_line) < THEMATIC_MIN
             THEN FALSE
             ELSE \E i \in 1..Len(THEMATIC_BREAK_CHARACTERS) :
                      AllChars(Strip(spaceless_line), THEMATIC_BREAK_CHARACTERS[i])

is_setext_underline(line) ==
    /\ ~is_indented_code_block_start_line(line)
    /\ Strip(line) # <<>>
    /\ (AllChars(Strip(line), "=") \/ AllChars(Strip(line), "-"))

\* A plausible slip: the setext underline joins the list of checkers.
ParagraphStartWithSetextChecker(line) ==
    ~ \/ is_indented_code_block_start_line(line)
      \/ is_atx_heading_line(line)
      \/ is_blank_line_line(line)
      \/ is_block_quote_line(line)
      \/ is_fenced_code_block_start_line(line)
      \/ is_list_start_line(line)
      \/ is_table_start_line(line)
      \/ is_thematic_break_line(line)
      \/ is_setext_underline(line)

is_paragraph_start_line(line) ==
    ~ \/ is_indented_code_block_start_line(line)
      \/ is_atx_heading_line(line)
      \/ is_blank_line_line(line)
      \/ is_block_quote_line(line)
      \/ is_fenced_code_block_start_line(line)
      \/ is_list_start_line(line)
      \/ is_table_start_line(line)
      \/ is_thematic_break_line(line)

\* ------------------------------------------------------------------ state
VARIABLES
    document,          \* the text the first call was given
    text,              \* the text argument of the running call
    width,             \* the width argument
    renderers,         \* which family of section renderers is installed
    splitterContract,  \* whether split_paragraph keeps its catch-all contract
    call,              \* 1: the call on the document, 2: the call on its result
    firstResult,       \* what call 1 returned
    pc,                \* position inside reformat_markdown_text
    pass,              \* 1: first _reformat_markdown_text, 2: the second
    passInput,         \* log_text as the running pass received it
    origLines,         \* log_text.splitlines() of the running pass
    remaining_lines,
    sections,
    current_line,
    idx,               \* index of the for loop over sections
    formatters,
    current_blank_lines,
    offset,
    new_text,
    new_new_text,
    level,
    loggerLevel,       \* logger.level, process-wide
    loggerLevel0,      \* logger.level before the call
    result,
    errLine,           \* the line number in the RuntimeError
    line,              \* predicate evaluation: the line
    verdict,           \* predicate evaluation: what the predicates answered
    hLines,            \* setext rendering: the section's lines
    hWidth,
    hOut,              \* reformatted(width)
    hOut2,             \* the output rendered again
    tpc,               \* two threads: each call's position
    tlevel,            \* two threads: each call's local `level`
    rootLevel          \* the root logger's level

pipelineVars ==
    <<document, text, width, renderers, splitterContract, call, firstResult, pc, pass,
      passInput, origLines, remaining_lines, sections, current_line, idx,
      formatters, current_blank_lines, offset, new_text, new_new_text, level,
      result, errLine>>
lineVars == <<line, verdict>>
headingVars == <<hLines, hWidth, hOut, hOut2>>
threadVars == <<tpc, tlevel>>
loggerVars == <<loggerLevel, loggerLevel0, rootLevel>>
vars == <<pipelineVars, lineVars, headingVars, threadVars, loggerVars>>

\* --------------------------------------------------------------- splitters
\* The length of the longest prefix of TRUEs of a sequence of booleans.
RECURSIVE RunFrom(_, _)
RunFrom(holds, i) ==
    IF i \in DOMAIN holds /\ holds[i] THEN RunFrom(holds, i + 1) ELSE i - 1

RunLen(holds) == RunFrom(holds, 1)

\* (consumed prefix, remainder)
SplitAt(lines, n) == <<SubSeq(lines, 1, n), SubSeq(lines, n + 1, Len(lines))>>

split_atx_heading(lines) ==
    SplitAt(lines, IF is_atx_heading_line(lines[1]) THEN 1 ELSE 0)

split_blank_line(lines) == SplitAt(lines, RunLen([i \in 1..Len(lines) |-> is_blank_line_line(lines[i])]))

IsBlockQuoteOrLazy(l) == is_block_quote_line(l) \/ is_paragraph_start_line(l)

split_block_quote(lines) ==
    SplitAt(lines, IF is_block_quote_line(lines[1])
                   THEN RunLen([i \in 1..Len(lines) |-> IsBlockQuoteOrLazy(lines[i])])
                   ELSE 0)

RECURSIVE LeadingRun(_, _)
LeadingRun(s, c) ==
    IF s = <<>> \/ Head(s) # c THEN 0 ELSE 1 + LeadingRun(Tail(s), c)

\* A line closing a fence of n characters c.
ClosesFence(l, c, n) ==
    Len(Strip(l)) >= n /\ AllChars(Strip(l), c)

split_fenced_code_block(lines) ==
    IF ~is_fenced_code_block_start_line(lines[1])
    THEN SplitAt(lines, 0)
    ELSE LET c == Strip(lines[1])[1]
             n == LeadingRun(Strip(lines[1]), c)
             closers == {j \in 2..Len(lines) : ClosesFence(lines[j], c, n)}
         IN  IF closers = {}
             THEN SplitAt(lines, Len(lines))
             ELSE SplitAt(lines, CHOOSE j \in closers : \A k \in closers : j <= k)

IsIndentedOrBlank(l) ==
    is_indented_code_block_start_line(l) \/ is_blank_line_line(l)

split_indented_code_block(lines) ==
    IF ~is_indented_code_block_start_line(lines[1])
    THEN SplitAt(lines, 0)
    ELSE LET r == RunLen([i \in 1..Len(lines) |-> IsIndentedOrBlank(lines[i])])
         IN  SplitAt(lines, CHOOSE k \in 1..r :
                                /\ ~is_blank_line_line(lines[k])
                                /\ \A j \in (k + 1)..r : is_blank_line_line(lines[j]))

\* [label]: destination
IsLinkReferenceDefinitionLine(l) ==
    LET t == Strip(l)
    IN  /\ Len(t) >= 5
        /\ t[1] = "["
        /\ \E k \in 3..(Len(t) - 2) :
               /\ t[k] = "]"
               /\ \A j \in 2..(k - 1) : t[j] # "]"
               /\ t[k + 1] = ":"
               /\ Strip(SubSeq(t, k + 2, Len(t))) # <<>>

IsIndentedContinuation(l) == ~is_blank_line_line(l) /\ get_indent(l) >= 1

split_link_reference_definition(lines) ==
    SplitAt(lines, IF IsLinkReferenceDefinitionLine(lines[1])
                   THEN 1 + RunLen([i \in 1..(Len(lines) - 1) |-> IsIndentedContinuation(lines[i + 1])])
                   ELSE 0)

\* The column at which the content of a list item starts.
ListContentColumn(l) ==
    LET t == LStrip(l)
        d == LeadingDigits(t)
    IN  get_indent(l) + (IF d >= 1 THEN d + 2 ELSE 2)

RECURSIVE ListRun(_, _, _)
ListRun(lines, n, col) ==
    LET b == RunLen([i \in 1..(Len(lines) - n) |-> is_blank_line_line(lines[n + i])])
        m == n + b + 1
    IN  IF m > Len(lines)
        THEN n
        ELSE IF is_list_start_line(lines[m])
             THEN ListRun(lines, m, ListContentColumn(lines[m]))
             ELSE IF get_indent(lines[m]) >= col
                  THEN ListRun(lines, m, col)
                  ELSE n

split_list(lines) ==
    SplitAt(lines, IF is_list_start_line(lines[1])
                   THEN ListRun(lines, 1, ListContentColumn(lines[1]))
                   ELSE 0)

\* The index of the underline that ends a heading started at line 1, or 0.
RECURSIVE SetextUnderlineAt(_, _)
SetextUnderlineAt(lines, k) ==
    IF k > Len(lines)
    THEN 0
    ELSE IF is_setext_underline(lines[k])
         THEN k
         ELSE IF is_paragraph_start_line(lines[k])
              THEN SetextUnderlineAt(lines, k + 1)
              ELSE 0

split_setext_heading(lines) ==
    SplitAt(lines, IF is_paragraph_start_line(lines[1])
                   THEN SetextUnderlineAt(lines, 2)
                   ELSE 0)

split_paragraph(lines) ==
    SplitAt(lines, IF splitterContract = "kept" /\ is_paragraph_start_line(lines[1])
                   THEN RunLen([i \in 1..Len(lines) |-> is_paragraph_start_line(lines[i])])
                   ELSE 0)

split_table(lines) == SplitAt(lines, RunLen([i \in 1..Len(lines) |-> is_table_start_line(lines[i])]))

split_thematic_break(lines) ==
    SplitAt(lines, IF is_thematic_break_line(lines[1]) THEN 1 ELSE 0)

\* ------------------------------------------------------------------- text
\* The index of the first "\n" of t, or 0.
FirstNL(t) ==
    IF \E k \in 1..Len(t) : t[k] = NL
    THEN CHOOSE k \in 1..Len(t) : t[k] = NL /\ \A j \in 1..(k - 1) : t[j] # NL
    ELSE 0

\* str.splitlines()
RECURSIVE SplitLines(_)
SplitLines(t) ==
    IF t = <<>>
    THEN <<>>
    ELSE LET k == FirstNL(t)
         IN  IF k = 0
             THEN <<t>>
             ELSE <<SubSeq(t, 1, k - 1)>> \o SplitLines(SubSeq(t, k + 1, Len(t)))

\* "\n".join(pieces)
RECURSIVE JoinNL(_)
JoinNL(pieces) ==
    IF pieces = <<>>
    THEN <<>>
    ELSE IF Len(pieces) = 1
         THEN pieces[1]
         ELSE pieces[1] \o <<NL>> \o JoinNL(Tail(pieces))

RECURSIVE Flatten(_)
Flatten(seqs) == IF seqs = <<>> THEN <<>> ELSE Head(seqs) \o Flatten(Tail(seqs))

RECURSIVE SumLen(_)
SumLen(seqs) == IF seqs = <<>> THEN 0 ELSE Len(Head(seqs)) + SumLen(Tail(seqs))

\* --------------------------------------------------------------- renderers
\* line.split(): the words of a line
RECURSIVE Words(_)
Words(s) ==
    LET t == LStrip(s)
        n == IF \E k \in 1..Len(t) : t[k] = SP
             THEN (CHOOSE k \in 1..Len(t) : t[k] = SP /\ \A j \in 1..(k - 1) : t[j] # SP) - 1
             ELSE Len(t)
    IN  IF t = <<>>
        THEN <<>>
        ELSE <<SubSeq(t, 1, n)>> \o Words(SubSeq(t, n + 1, Len(t)))

\* Greedy wrapping: a word joins the running line while the line stays
\* within w; a word longer than w gets a line of its own.
RECURSIVE Wrap(_, _, _)
Wrap(words, w, cur) ==
    IF words = <<>>
    THEN IF cur = <<>> THEN <<>> ELSE <<cur>>
    ELSE IF cur = <<>>
         THEN Wrap(Tail(words), w, Head(words))
         ELSE IF Len(cur) + 1 + Len(Head(words)) <= w
              THEN Wrap(Tail(words), w, cur \o <<SP>> \o Head(words))
              ELSE <<cur>> \o Wrap(Tail(words), w, Head(words))

RECURSIVE MaxLen(_)
MaxLen(seqs) == IF seqs = <<>> THEN 0 ELSE Max(Len(Head(seqs)), MaxLen(Tail(seqs)))

\* The heading's text lines, stripped and wrapped to w.
SetextHeadingText(content, w) ==
    Wrap(Flatten([i \in 1..(Len(content) - 1) |-> Words(content[i])]), w, <<>>)

\* An underline that keeps the length the input gave it.
SetextUnderlineKept(content, w) == Strip(content[Len(content)])

SetextUnderline(content, w) ==
    Repeat(Strip(content[Len(content)])[1], MaxLen(SetextHeadingText(content, w)))

\* MarkdownSetextHeading(offset, content).reformatted(width), as lines
SetextReformatted(content, w) ==
    SetextHeadingText(content, w) \o <<SetextUnderline(content, w)>>

\* A renderer that is not idempotent: it indents what is not indented and
\* removes the indentation of what is.
Toggle(l) == IF get_indent(l) = 0 THEN <<SP>> \o l ELSE LStrip(l)

\* FORMATTERS[type](offset, content).reformatted(width), as text
Reformatted(f, w) ==
    IF f.type = "Blank Line"
    THEN <<>>
    ELSE IF f.type = "Setext Heading"
         THEN JoinNL(SetextReformatted(f.content, w))
         ELSE IF renderers = "verbatim"
              THEN JoinNL(f.content)
              ELSE IF renderers = "stripping"
                   THEN JoinNL([i \in 1..Len(f.content) |-> Strip(f.content[i])])
                   ELSE JoinNL([i \in 1..Len(f.content) |-> Toggle(f.content[i])])

\* ---------------------------------------------------------------- pipeline
\* The order with Paragraph tried before Setext Heading.
SPLITTERS_ParagraphFirst ==
    << "ATX Heading", "Blank Line", "Block Quote", "Fenced Code Block",
       "Indented Code Block", "Link Reference Definition", "List",
       "Paragraph", "Setext Heading", "Table", "Thematic Break" >>

SPLITTERS ==
    << "ATX Heading", "Blank Line", "Block Quote", "Fenced Code Block",
       "Indented Code Block", "Link Reference Definition", "List",
       "Setext Heading", "Paragraph", "Table", "Thematic Break" >>

SplitterOf(type, lines) ==
    CASE type = "ATX Heading" -> split_atx_heading(lines)
      [] type = "Blank Line" -> split_blank_line(lines)
      [] type = "Block Quote" -> split_block_quote(lines)
      [] type = "Fenced Code Block" -> split_fenced_code_block(lines)
      [] type = "Indented Code Block" -> split_indented_code_block(lines)
      [] type = "Link Reference Definition" -> split_link_reference_definition(lines)
      [] type = "List" -> split_list(lines)
      [] type = "Setext Heading" -> split_setext_heading(lines)
      [] type = "Paragraph" -> split_paragraph(lines)
      [] type = "Table" -> split_table(lines)
      [] type = "Thematic Break" -> split_thematic_break(lines)

\* The for loop over SPLITTERS from position i: the first splitter with a
\* non-empty section wins; every splitter tried rebinds remaining_lines.
RECURSIVE WalkSplitters(_, _)
WalkSplitters(i, lines) ==
    IF i > Len(SPLITTERS)
    THEN [matched |-> FALSE, type |-> "none", content |-> <<>>, remaining |-> lines]
    ELSE LET r == SplitterOf(SPLITTERS[i], lines)
         IN  IF r[1] # <<>>
             THEN [matched |-> TRUE, type |-> SPLITTERS[i], content |-> r[1],
                   remaining |-> r[2]]
             ELSE WalkSplitters(i + 1, r[2])

SectionLengths(secs) == SumLen([i \in 1..Len(secs) |-> secs[i].content])
SectionLines(secs) == Flatten([i \in 1..Len(secs) |-> secs[i].content])

NoText == <<"no text">>

\* logger.getEffectiveLevel(): the logger's own level, or its ancestor's
EffectiveLevel == IF loggerLevel # NOTSET THEN loggerLevel ELSE rootLevel

\* line 86: remaining_lines = log_text.splitlines()
StartPass ==
    /\ pc = "pass_start"
    /\ origLines' = SplitLines(passInput)
    /\ remaining_lines' = SplitLines(passInput)
    /\ sections' = <<>>
    /\ current_line' = 1
    /\ pc' = "classify"
    /\ UNCHANGED <<document, text, width, renderers, splitterContract, call, firstResult,
                   pass, passInput, idx, formatters, current_blank_lines, offset,
                   new_text, new_new_text, level, result, errLine>>
    /\ UNCHANGED <<lineVars, headingVars, threadVars, loggerVars>>

\* A classification step that forgets to record the section it consumed.
ClassifyStepDropsSection ==
    /\ pc = "classify"
    /\ remaining_lines # <<>>
    /\ \E r \in {WalkSplitters(1, remaining_lines)} :
           IF r.matched
           THEN /\ sections' = sections
                /\ current_line' = current_line + Len(r.content)
                /\ remaining_lines' = r.remaining
                /\ UNCHANGED <<pc, errLine>>
           ELSE /\ remaining_lines' = r.remaining
                /\ errLine' = SectionLengths(sections) + 1
                /\ pc' = "runtime_error"
                /\ UNCHANGED <<sections, current_line>>
    /\ UNCHANGED <<document, text, width, renderers, splitterContract, call, firstResult,
                   pass, passInput, origLines, idx, formatters,
                   current_blank_lines, offset, new_text, new_new_text, level,
                   result>>
    /\ UNCHANGED <<lineVars, headingVars, threadVars, loggerVars>>

\* A failure that counts the sections instead of their lines.
ClassifyStepCountsSections ==
    /\ pc = "classify"
    /\ remaining_lines # <<>>
    /\ \E r \in {WalkSplitters(1, remaining_lines)} :
           IF r.matched
           THEN /\ sections' = Append(sections, [type |-> r.type, content |-> r.content])
                /\ current_line' = current_line + Len(r.content)
                /\ remaining_lines' = r.remaining
                /\ UNCHANGED <<pc, errLine>>
           ELSE /\ remaining_lines' = r.remaining
                /\ errLine' = Len(sections) + 1
                /\ pc' = "runtime_error"
                /\ UNCHANGED <<sections, current_line>>
    /\ UNCHANGED <<document, text, width, renderers, splitterContract, call, firstResult,
                   pass, passInput, origLines, idx, formatters,
                   current_blank_lines, offset, new_text, new_new_text, level,
                   result>>
    /\ UNCHANGED <<lineVars, headingVars, threadVars, loggerVars>>

\* lines 89-111: one iteration of the while loop: the for loop over the
\* splitters, a section recorded on the first match, the RuntimeError of the
\* for loop's else when no splitter matched
ClassifyStep ==
    /\ pc = "classify"
    /\ remaining_lines # <<>>
    /\ \E r \in {WalkSplitters(1, remaining_lines)} :
           IF r.matched
           THEN /\ sections' = Append(sections, [type |-> r.type, content |-> r.content])
                /\ current_line' = current_line + Len(r.content)
                /\ remaining_lines' = r.remaining
                /\ UNCHANGED <<pc, errLine>>
           ELSE /\ remaining_lines' = r.remaining
                /\ errLine' = SectionLengths(sections) + 1
                /\ pc' = "runtime_error"
                /\ UNCHANGED <<sections, current_line>>
    /\ UNCHANGED <<document, text, width, renderers, splitterContract, call, firstResult,
                   pass, passInput, origLines, idx, formatters,
                   current_blank_lines, offset, new_text, new_new_text, level,
                   result>>
    /\ UNCHANGED <<lineVars, headingVars, threadVars, loggerVars>>

\* lines 113-115: the while loop ends, the for loop over sections starts
ClassifyDone ==
    /\ pc = "classify"
    /\ remaining_lines = <<>>
    /\ formatters' = <<>>
    /\ current_blank_lines' = <<>>
    /\ offset' = 0
    /\ idx' = 1
    /\ pc' = "emit"
    /\ UNCHANGED <<document, text, width, renderers, splitterContract, call, firstResult,
                   pass, passInput, origLines, remaining_lines, sections,
                   current_line, new_text, new_new_text, level, result, errLine>>
    /\ UNCHANGED <<lineVars, headingVars, threadVars, loggerVars>>

\* lines 116-131: one iteration of the for loop over sections
EmitStep ==
    /\ pc = "emit"
    /\ idx <= Len(sections)
    /\ LET formatter == [type |-> sections[idx].type, offset |-> offset,
                         content |-> sections[idx].content]
       IN  IF sections[idx].type = "Blank Line"
           THEN /\ current_blank_lines' = Append(current_blank_lines, formatter)
                /\ formatters' = formatters
           ELSE /\ formatters' = (formatters \o current_blank_lines) \o <<formatter>>
                /\ current_blank_lines' = <<>>
    /\ offset' = offset + Len(sections[idx].content)
    /\ idx' = idx + 1
    /\ UNCHANGED <<document, text, width, renderers, splitterContract, call, firstResult,
                   pc, pass, passInput, origLines, remaining_lines, sections,
                   current_line, new_text, new_new_text, level, result, errLine>>
    /\ UNCHANGED <<lineVars, headingVars, threadVars, loggerVars>>

\* line 132, and the assignment of the pass's result (lines 148, 153)
JoinOutput ==
    /\ pc = "emit"
    /\ idx > Len(sections)
    /\ LET out == JoinNL([i \in 1..Len(formatters) |->
                              Reformatted(formatters[i], width)]) \o <<NL>>
       IN  IF pass = 1
           THEN /\ new_text' = out
                /\ new_new_text' = new_new_text
                /\ pc' = "getlevel"
           ELSE /\ new_new_text' = out
                /\ new_text' = new_text
                /\ pc' = "restore"
    /\ UNCHANGED <<document, text, width, renderers, splitterContract, call, firstResult,
                   pass, passInput, origLines, remaining_lines, sections,
                   current_line, idx, formatters, current_blank_lines, offset,
                   level, result, errLine>>
    /\ UNCHANGED <<lineVars, headingVars, threadVars, loggerVars>>

\* line 149
GetLevel ==
    /\ pc = "getlevel"
    /\ level' = EffectiveLevel
    /\ pc' = "mute"
    /\ UNCHANGED <<document, text, width, renderers, splitterContract, call, firstResult,
                   pass, passInput, origLines, remaining_lines, sections,
                   current_line, idx, formatters, current_blank_lines, offset,
                   new_text, new_new_text, result, errLine>>
    /\ UNCHANGED <<lineVars, headingVars, threadVars, loggerVars>>

\* A second pass that is given the original text again.
MuteLoggerSecondPassOnOriginal ==
    /\ pc = "mute"
    /\ loggerLevel' = IF level > DEBUG THEN ERROR ELSE loggerLevel
    /\ passInput' = text
    /\ pass' = 2
    /\ pc' = "pass_start"
    /\ UNCHANGED <<document, text, width, renderers, splitterContract, call, firstResult,
                   origLines, remaining_lines, sections, current_line, idx,
                   formatters, current_blank_lines, offset, new_text,
                   new_new_text, level, result, errLine>>
    /\ UNCHANGED <<lineVars, headingVars, threadVars, loggerLevel0, rootLevel>>

\* lines 151-153: mute the logger, call the second pass on new_text
MuteLogger ==
    /\ pc = "mute"
    /\ loggerLevel' = IF level > DEBUG THEN ERROR ELSE loggerLevel
    /\ passInput' = new_text
    /\ pass' = 2
    /\ pc' = "pass_start"
    /\ UNCHANGED <<document, text, width, renderers, splitterContract, call, firstResult,
                   origLines, remaining_lines, sections, current_line, idx,
                   formatters, current_blank_lines, offset, new_text,
                   new_new_text, level, result, errLine>>
    /\ UNCHANGED <<lineVars, headingVars, threadVars, loggerLevel0, rootLevel>>

\* line 154
RestoreLevel ==
    /\ pc = "restore"
    /\ loggerLevel' = level
    /\ pc' = "compare"
    /\ UNCHANGED <<document, text, width, renderers, splitterContract, call, firstResult,
                   pass, passInput, origLines, remaining_lines, sections,
                   current_line, idx, formatters, current_blank_lines, offset,
                   new_text, new_new_text, level, result, errLine>>
    /\ UNCHANGED <<lineVars, headingVars, threadVars, loggerLevel0, rootLevel>>

\* A comparison that swallows the difference.
CompareSwallows ==
    /\ pc = "compare"
    /\ pc' = "returned"
    /\ result' = new_text
    /\ UNCHANGED <<document, text, width, renderers, splitterContract, call, firstResult,
                   pass, passInput, origLines, remaining_lines, sections,
                   current_line, idx, formatters, current_blank_lines, offset,
                   new_text, new_new_text, level, errLine>>
    /\ UNCHANGED <<lineVars, headingVars, threadVars, loggerVars>>

\* lines 155-161
Compare ==
    /\ pc = "compare"
    /\ IF new_new_text # new_text
       THEN /\ pc' = "inconsistent"
            /\ result' = NoText
       ELSE /\ pc' = "returned"
            /\ result' = new_text
    /\ UNCHANGED <<document, text, width, renderers, splitterContract, call, firstResult,
                   pass, passInput, origLines, remaining_lines, sections,
                   current_line, idx, formatters, current_blank_lines, offset,
                   new_text, new_new_text, level, errLine>>
    /\ UNCHANGED <<lineVars, headingVars, threadVars, loggerVars>>

\* reformat_markdown_text is called on the text it returned, same width
Reapply ==
    /\ pc = "returned"
    /\ call = 1
    /\ call' = 2
    /\ firstResult' = result
    /\ text' = result
    /\ passInput' = result
    /\ pass' = 1
    /\ pc' = "pass_start"
    /\ origLines' = <<>>
    /\ remaining_lines' = <<>>
    /\ sections' = <<>>
    /\ current_line' = 1
    /\ idx' = 0
    /\ formatters' = <<>>
    /\ current_blank_lines' = <<>>
    /\ offset' = 0
    /\ new_text' = NoText
    /\ new_new_text' = NoText
    /\ result' = NoText
    /\ UNCHANGED <<document, width, renderers, splitterContract, level, errLine>>
    /\ UNCHANGED <<lineVars, headingVars, threadVars, loggerVars>>

\* ------------------------------------------------------------------ inputs
PipelineLines ==
    { <<>>,
      <<"a">>,
      <<"-", "-", "-">>,
      <<SP, SP, SP, SP, "a">>,
      <<SP, SP, SP, "a">>,
      <<SP, SP, SP, SP, "~", "~", "~">>,
      <<"[", "a", "]", ":", SP, "b">>,
      <<"-", SP, "a">> }

Documents == UNION {[1..n -> PipelineLines] : n \in 0..MaxLines}

\* The document as text: every line ended by "\n".
TextOf(doc) == Flatten([i \in 1..Len(doc) |-> doc[i] \o <<NL>>])

\* The renderers and splitters installed and the width asked for: each
\* renderer family at the default width, a narrow width, and a paragraph
\* splitter that breaks its catch-all contract.
Environments ==
    { <<"verbatim", "kept", 88>>,
      <<"verbatim", "kept", 2>>,
      <<"stripping", "kept", 88>>,
      <<"unstable", "kept", 88>>,
      <<"verbatim", "broken", 88>> }

IdleLine == line = <<>> /\ verdict = [done |-> FALSE]
IdleHeading == hLines = <<>> /\ hWidth = 0 /\ hOut = NoText /\ hOut2 = NoText
IdleThreads == tpc = <<>> /\ tlevel = <<>>

Init ==
    /\ \E doc \in Documents : document = TextOf(doc)
    /\ text = document
    /\ \E e \in Environments :
           /\ renderers = e[1]
           /\ splitterContract = e[2]
           /\ width = e[3]
    /\ call = 1
    /\ firstResult = NoText
    /\ pc = "pass_start"
    /\ pass = 1
    /\ passInput = text
    /\ origLines = <<>>
    /\ remaining_lines = <<>>
    /\ sections = <<>>
    /\ current_line = 1
    /\ idx = 0
    /\ formatters = <<>>
    /\ current_blank_lines = <<>>
    /\ offset = 0
    /\ new_text = NoText
    /\ new_new_text = NoText
    /\ level = NOTSET
    /\ result = NoText
    /\ errLine = 0
    /\ loggerLevel = NOTSET
    /\ loggerLevel0 = NOTSET
    /\ rootLevel = 30
    /\ IdleLine
    /\ IdleHeading
    /\ IdleThreads

Next ==
    \/ StartPass
    \/ ClassifyStep
    \/ ClassifyDone
    \/ EmitStep
    \/ JoinOutput
    \/ GetLevel
    \/ MuteLogger
    \/ RestoreLevel
    \/ Compare
    \/ Reapply

Spec == Init /\ [][Next]_vars

\* ------------------------------------------------------------ properties
Terminal == pc \in {"returned", "inconsistent", "runtime_error"}

\* C1: reformat_markdown_text applied to a text it returned, with the same
\* width, returns that text again.
C1_Idempotence ==
    (call = 2 /\ Terminal) => (pc = "returned" /\ result = firstResult)

C1_Witness ==
    /\ call = 2
    /\ pc = "returned"
    /\ result = firstResult
    /\ firstResult # document

\* C2: at every iteration of the classification loop the lines of the
\* sections recorded so far, followed by remaining_lines, are the original
\* lines, and current_line counts them; when the loop has ended the sections
\* hold exactly the original lines.
C2_Completeness ==
    /\ SectionLines(sections) \o remaining_lines = origLines
    /\ current_line = SectionLengths(sections) + 1
    /\ pc = "emit" => /\ SectionLines(sections) = origLines
                      /\ SectionLengths(sections) = Len(origLines)

C2_Witness ==
    /\ pc = "emit"
    /\ Len(origLines) = 3
    /\ Len(sections) = 2
    /\ SectionLines(sections) = origLines

IsBlank(f) == f.type = "Blank Line"

\* The non-blank sections among secs, in order.
NonBlank(secs) ==
    LET kept == SelectSeq(secs, LAMBDA f : ~IsBlank(f))
    IN  [i \in 1..Len(kept) |-> kept[i].content]

\* C3: a Blank Line section is in formatters only with a non-blank section
\* emitted before it and one emitted after it, and the non-blank sections are
\* emitted in their original order.
C3_BlankRunsOnlyBetween ==
    (splitterContract = "kept" /\ pc = "emit" /\ idx > Len(sections)) =>
        /\ \A i \in 1..Len(formatters) :
               IsBlank(formatters[i]) =>
                   /\ \E j \in 1..(i - 1) : ~IsBlank(formatters[j])
                   /\ \E k \in (i + 1)..Len(formatters) : ~IsBlank(formatters[k])
        /\ NonBlank(formatters) = NonBlank(sections)

\* C4: the second pass runs on the first pass's output; the call raises
\* ReformatInconsistentException, and returns nothing, exactly when the two
\* outputs differ, and returns the first output otherwise.
C4_InconsistencyRaised ==
    pc \in {"returned", "inconsistent"} =>
        /\ pass = 2
        /\ passInput = new_text
        /\ (pc = "inconsistent") = (new_new_text # new_text)
        /\ pc = "inconsistent" => result = NoText
        /\ pc = "returned" => result = new_text

C4_Witness ==
    /\ pc = "inconsistent"
    /\ new_new_text # new_text
    /\ result = NoText

NoSplitterMatches(lines) ==
    \A i \in 1..Len(SPLITTERS) : SplitterOf(SPLITTERS[i], lines)[1] = <<>>

\* C5: when the remainder is not empty and no splitter consumes anything the
\* pass ends in the RuntimeError, whose line number is that of the first
\* unclassified line, which is current_line; no text is returned.
C5_ClassificationFailure ==
    /\ [](pc = "runtime_error" =>
            /\ remaining_lines # <<>>
            /\ NoSplitterMatches(remaining_lines)
            /\ errLine = current_line
            /\ errLine = (Len(origLines) - Len(remaining_lines)) + 1
            /\ result = NoText)
    /\ [][(pc = "classify" /\ remaining_lines # <<>>
             /\ NoSplitterMatches(remaining_lines)) => pc' = "runtime_error"]_vars

C5_Witness ==
    /\ pc = "runtime_error"
    /\ Len(sections) = 1
    /\ errLine = 3
    /\ current_line = 3

\* The first line is a paragraph-start line and the second is made of dashes.
TextThenDashes ==
    /\ Len(origLines) >= 2
    /\ Len(sections) >= 1
    /\ is_paragraph_start_line(origLines[1])
    /\ is_setext_underline(origLines[2])
    /\ AllChars(Strip(origLines[2]), "-")

FirstIsSetextHeading ==
    /\ sections[1].type = "Setext Heading"
    /\ sections[1].content = SubSeq(origLines, 1, 2)

\* C7, as claimed: a paragraph-start line followed by a line of dashes is
\* always classified as a Setext Heading; no earlier splitter claims it.
C7_SetextAlwaysWins ==
    (splitterContract = "kept" /\ TextThenDashes) => FirstIsSetextHeading

\* C7, amended: a paragraph-start line followed by a line of dashes is
\* classified as a Setext Heading, never as a Paragraph or a Thematic Break,
\* unless it is a link reference definition: then the Link Reference
\* Definition splitter, which precedes Setext Heading, claims it.
C7_SetextWinsUnlessLinkReference ==
    TextThenDashes =>
        IF IsLinkReferenceDefinitionLine(origLines[1])
        THEN sections[1].type = "Link Reference Definition"
        ELSE FirstIsSetextHeading

C7_Witness ==
    /\ TextThenDashes
    /\ ~IsLinkReferenceDefinitionLine(origLines[1])
    /\ FirstIsSetextHeading
    /\ is_thematic_break_line(origLines[2])

\* C8: a document whose first line is not blank and has exactly 4 leading
\* spaces starts with an Indented Code Block; with exactly 3 leading spaces
\* it does not.
C8_IndentationThreshold ==
    (splitterContract = "kept" /\ Len(sections) >= 1
       /\ ~is_blank_line_line(origLines[1])) =>
        /\ get_indent(origLines[1]) = 4 =>
               sections[1].type = "Indented Code Block"
        /\ get_indent(origLines[1]) = 3 =>
               sections[1].type # "Indented Code Block"

\* ---------------------------------------------- the predicates on one line
IdlePipeline ==
    /\ document = <<>>
    /\ text = <<>>
    /\ width = 88
    /\ renderers = "verbatim"
    /\ splitterContract = "kept"
    /\ call = 1
    /\ firstResult = NoText
    /\ pc = "idle"
    /\ pass = 1
    /\ passInput = <<>>
    /\ origLines = <<>>
    /\ remaining_lines = <<>>
    /\ sections = <<>>
    /\ current_line = 1
    /\ idx = 0
    /\ formatters = <<>>
    /\ current_blank_lines = <<>>
    /\ offset = 0
    /\ new_text = NoText
    /\ new_new_text = NoText
    /\ level = NOTSET
    /\ result = NoText
    /\ errLine = 0

IdleLogger ==
    /\ loggerLevel = NOTSET
    /\ loggerLevel0 = NOTSET
    /\ rootLevel = 30

LineChars == {SP, "-", "=", "a", "#", "|"}

AllLines == UNION {[1..n -> LineChars] : n \in 0..MaxLineLen}

NotEvaluated ==
    [done |-> FALSE, indented_code_block_start |-> FALSE, atx_heading |-> FALSE,
     blank_line |-> FALSE, block_quote |-> FALSE,
     fenced_code_block_start |-> FALSE, list_start |-> FALSE,
     table_start |-> FALSE, thematic_break |-> FALSE,
     setext_underline |-> FALSE, paragraph_start |-> FALSE]

InitLines ==
    /\ line \in AllLines
    /\ verdict = NotEvaluated
    /\ IdlePipeline
    /\ IdleLogger
    /\ IdleHeading
    /\ IdleThreads

\* Every predicate of _lines.py is asked about the line.
EvaluateLine ==
    /\ ~verdict.done
    /\ verdict' =
           [done |-> TRUE,
            indented_code_block_start |-> is_indented_code_block_start_line(line),
            atx_heading |-> is_atx_heading_line(line),
            blank_line |-> is_blank_line_line(line),
            block_quote |-> is_block_quote_line(line),
            fenced_code_block_start |-> is_fenced_code_block_start_line(line),
            list_start |-> is_list_start_line(line),
            table_start |-> is_table_start_line(line),
            thematic_break |-> is_thematic_break_line(line),
            setext_underline |-> is_setext_underline(line),
            paragraph_start |-> is_paragraph_start_line(line)]
    /\ UNCHANGED <<line, pipelineVars, headingVars, threadVars, loggerVars>>

NextLines == EvaluateLine

SpecLines == InitLines /\ [][NextLines]_vars

\* C10, as claimed: every setext underline is a paragraph-start line.
C10_UnderlineIsParagraphStart ==
    (verdict.done /\ verdict.setext_underline) => verdict.paragraph_start

\* C10, amended: is_paragraph_start_line is the complement of the eight
\* checkers, the setext underline not among them, so a setext underline is a
\* paragraph-start line unless it is a thematic break (three or more dashes)
\* or a list start (one dash followed by a space).
C10_UnderlineIsParagraphStartUnlessBreakOrList ==
    verdict.done =>
        /\ verdict.paragraph_start =
               ~(\/ verdict.indented_code_block_start
                 \/ verdict.atx_heading
                 \/ verdict.blank_line
                 \/ verdict.block_quote
                 \/ verdict.fenced_code_block_start
                 \/ verdict.list_start
                 \/ verdict.table_start
                 \/ verdict.thematic_break)
        /\ verdict.setext_underline =>
               (verdict.paragraph_start =
                    ~(verdict.thematic_break \/ verdict.list_start))

C10_Witness ==
    /\ verdict.done
    /\ verdict.setext_underline
    /\ verdict.paragraph_start
    /\ AllChars(Strip(line), "-")

\* ------------------------------------------- rendering one setext heading
HeadingTextLines ==
    { <<"A">>,
      <<SP, SP, SP, "H", "e", "a", "d", "i", "n", "g", SP, SP, SP, SP>>,
      <<"T", "h", "i", "s", SP, "i", "s", SP, "a", SP, "l", "o", "n", "g">>,
      <<"h", "e", "a", "d", "i", "n", "g">>,
      <<"a", SP, SP, "b">> }

HeadingUnderlines ==
    { <<"-", "-", "-", "-">>, <<"-", "-", "-">>, <<"-", "-">>, <<"-">>,
      <<"=">>, <<SP, "=", "=", SP>> }

HeadingWidths == {1, 12, 88}

HeadingSections ==
    UNION {{t \o <<u>> : t \in [1..n -> HeadingTextLines], u \in HeadingUnderlines} :
               n \in 1..MaxTextLines}

InitHeading ==
    /\ hLines \in HeadingSections
    /\ hWidth \in HeadingWidths
    /\ hOut = NoText
    /\ hOut2 = NoText
    /\ IdlePipeline
    /\ IdleLogger
    /\ IdleLine
    /\ IdleThreads

\* MarkdownSetextHeading(0, lines).reformatted(width)
RenderHeading ==
    /\ hOut = NoText
    /\ hOut' = SetextReformatted(hLines, hWidth)
    /\ UNCHANGED <<hLines, hWidth, hOut2>>
    /\ UNCHANGED <<pipelineVars, lineVars, threadVars, loggerVars>>

\* The rendered section is made a section again and rendered again.
RerenderHeading ==
    /\ hOut # NoText
    /\ hOut2 = NoText
    /\ hOut2' = SetextReformatted(hOut, hWidth)
    /\ UNCHANGED <<hLines, hWidth, hOut>>
    /\ UNCHANGED <<pipelineVars, lineVars, threadVars, loggerVars>>

NextHeading == RenderHeading \/ RerenderHeading

SpecHeading == InitHeading /\ [][NextHeading]_vars

TextLinesOf(lines) == SubSeq(lines, 1, Len(lines) - 1)
WordsOf(lines) == Flatten([i \in 1..Len(lines) |-> Words(lines[i])])

\* One word, or words separated by single spaces, within w unless one word.
IsWrappedLine(l, w) ==
    /\ l # <<>>
    /\ l[1] # SP
    /\ l[Len(l)] # SP
    /\ \A i \in 1..(Len(l) - 1) : ~(l[i] = SP /\ l[i + 1] = SP)
    /\ Len(l) <= w \/ Len(Words(l)) = 1

TestSimpleIn ==
    << <<SP, SP, SP, "H", "e", "a", "d", "i", "n", "g", SP, SP, SP, SP>>,
       <<"-", "-", "-">> >>
TestSimpleOut ==
    << <<"H", "e", "a", "d", "i", "n", "g">>, Repeat("-", 7) >>
TestSingularIn == << <<"A">>, <<"-", "-", "-", "-">> >>
TestSingularOut == << <<"A">>, <<"-">> >>
TestMultilineIn ==
    << <<"T", "h", "i", "s", SP, "i", "s", SP, "a", SP, "l", "o", "n", "g">>,
       <<"h", "e", "a", "d", "i", "n", "g">>,
       <<"-", "-">> >>
TestMultilineOut ==
    << <<"T", "h", "i", "s", SP, "i", "s", SP, "a">>,
       <<"l", "o", "n", "g", SP, "h", "e", "a", "d", "i", "n", "g">>,
       Repeat("-", 12) >>

\* C9: the rendered heading is the heading's words, wrapped to the width,
\* followed by one underline of the input's underline character as long as
\* the longest rendered text line; the three cases of test_setext_heading.py
\* come out as the tests expect; rendering the output again changes nothing.
C9_SetextUnderlineNormalised ==
    /\ hOut # NoText =>
        /\ Len(hOut) >= 2
        /\ WordsOf(TextLinesOf(hOut)) = WordsOf(TextLinesOf(hLines))
        /\ \A i \in 1..(Len(hOut) - 1) : IsWrappedLine(hOut[i], hWidth)
        /\ hOut[Len(hOut)] =
               Repeat(Strip(hLines[Len(hLines)])[1], MaxLen(TextLinesOf(hOut)))
        /\ hLines = TestSimpleIn => hOut = TestSimpleOut
        /\ hLines = TestSingularIn => hOut = TestSingularOut
        /\ (hLines = TestMultilineIn /\ hWidth = 12) => hOut = TestMultilineOut
    /\ hOut2 # NoText => hOut2 = hOut

C9_Witness ==
    /\ hLines = TestMultilineIn
    /\ hWidth = 12
    /\ hOut = TestMultilineOut
    /\ hOut2 = hOut

\* ------------------------------------------------- two concurrent calls
Threads == {1, 2}
LoggerLevels == {0, 10, 20, 30, 40}

InitThreads ==
    /\ tpc = [t \in Threads |-> "pass1"]
    /\ tlevel = [t \in Threads |-> NOTSET]
    /\ loggerLevel \in LoggerLevels
    /\ loggerLevel0 = loggerLevel
    /\ rootLevel \in {20, 30}
    /\ IdlePipeline
    /\ IdleLine
    /\ IdleHeading

\* line 148: the first pass works on the call's own text and sections
T_FirstPass(t) ==
    /\ tpc[t] = "pass1"
    /\ tpc' = [tpc EXCEPT ![t] = "getlevel"]
    /\ UNCHANGED <<tlevel, pipelineVars, lineVars, headingVars, loggerVars>>

\* line 149
T_GetLevel(t) ==
    /\ tpc[t] = "getlevel"
    /\ tlevel' = [tlevel EXCEPT ![t] = EffectiveLevel]
    /\ tpc' = [tpc EXCEPT ![t] = "mute"]
    /\ UNCHANGED <<pipelineVars, lineVars, headingVars, loggerVars>>

\* lines 151-152
T_Mute(t) ==
    /\ tpc[t] = "mute"
    /\ IF tlevel[t] > DEBUG
       THEN loggerLevel' = ERROR
       ELSE UNCHANGED loggerLevel
    /\ tpc' = [tpc EXCEPT ![t] = "pass2"]
    /\ UNCHANGED <<tlevel, loggerLevel0, rootLevel>>
    /\ UNCHANGED <<pipelineVars, lineVars, headingVars>>

\* line 153
T_SecondPass(t) ==
    /\ tpc[t] = "pass2"
    /\ tpc' = [tpc EXCEPT ![t] = "restore"]
    /\ UNCHANGED <<tlevel, pipelineVars, lineVars, headingVars, loggerVars>>

\* line 154
T_Restore(t) ==
    /\ tpc[t] = "restore"
    /\ loggerLevel' = tlevel[t]
    /\ tpc' = [tpc EXCEPT ![t] = "compare"]
    /\ UNCHANGED <<tlevel, loggerLevel0, rootLevel>>
    /\ UNCHANGED <<pipelineVars, lineVars, headingVars>>

\* lines 155-161
T_Compare(t) ==
    /\ tpc[t] = "compare"
    /\ tpc' = [tpc EXCEPT ![t] = "done"]
    /\ UNCHANGED <<tlevel, pipelineVars, lineVars, headingVars, loggerVars>>

NextThreads ==
    \E t \in Threads :
        \/ T_FirstPass(t)
        \/ T_GetLevel(t)
        \/ T_Mute(t)
        \/ T_SecondPass(t)
        \/ T_Restore(t)
        \/ T_Compare(t)

SpecThreads == InitThreads /\ [][NextThreads]_vars

\* C6: two unsynchronised calls do not interfere: when both are done the
\* level the module logger works at is what it was before the calls.
C6_CallsDoNotInterfere ==
    (\A t \in Threads : tpc[t] = "done") =>
        EffectiveLevel = (IF loggerLevel0 # NOTSET THEN loggerLevel0 ELSE rootLevel)

=============================================================================
